---- MODULE Spec2Model ----
(***************************************************************************)
(* A model of claw-runner's external-process orchestration core            *)
(* (src/claw_runner/runner.py): the CLI resolver (_resolve_cli), the       *)
(* status summary (_status_summary with _parse_status_text) and the        *)
(* terminal command synthesis (_resolve_terminal, _terminal_argv,          *)
(* _open_terminal).                                                        *)
(*                                                                         *)
(* Strings are sequences of atoms.  An atom is a piece of text that the    *)
(* code never looks inside: a whole word ("clawdbot"), a numeral ("10"),   *)
(* or one special character (" ", "\n", "/", "~", ":", "'", ...).  The     *)
(* string an atom sequence stands for is the concatenation of its atoms.   *)
(***************************************************************************)
EXTENDS Integers, Sequences, FiniteSets, TLC

VARIABLES
  env,      \* the machine: PATH, nvm tree, common dirs, permissions, cwd, TERMINAL
  cliArg,   \* argument of the last _resolve_cli call
  res,      \* what that call produced
  termIn,   \* the last terminal call: which function, and its arguments
  termOut,  \* what that call produced
  cfgCli,   \* config.cli of the runner
  pc,       \* where _status_summary stands: idle, structured, plain, done
  cliInfo,  \* its cli_info
  calls,    \* the CLI invocations it made so far, in order, with how each ended
  chanReads, \* tg and wa after each channel shape it read
  shown,    \* what it returned or raised
  runIn,    \* the last _run call: how the child process ended
  runOut    \* what that call returned

----------------------------------------------------------------------------
(* Strings *)

WS == {" ", "\n", "\t"}

RECURSIVE LStrip(_)
LStrip(s) == IF s # <<>> /\ Head(s) \in WS THEN LStrip(Tail(s)) ELSE s

RECURSIVE RStrip(_)
RStrip(s) == IF s # <<>> /\ s[Len(s)] \in WS THEN RStrip(SubSeq(s, 1, Len(s) - 1)) ELSE s

\* str.strip()
Strip(s) == RStrip(LStrip(s))

Contains(s, a) == \E i \in DOMAIN s : s[i] = a

\* index of the first occurrence of atom a in s at or after position from, 0 if none
RECURSIVE FindFrom(_, _, _)
FindFrom(s, a, from) ==
  IF from > Len(s) THEN 0
  ELSE IF s[from] = a THEN from
  ELSE FindFrom(s, a, from + 1)

RECURSIVE Repeat(_, _)
Repeat(a, n) == IF n = 0 THEN <<>> ELSE <<a>> \o Repeat(a, n - 1)

----------------------------------------------------------------------------
(* The file system as the resolver sees it *)

\* $HOME of the user the runner runs as
Home == <<"/", "home", "/", "u">>

\* the PATH directory that holds what shutil.which finds
PathDir == <<"/", "opt", "/", "bin">>

Aliases == << <<"clawdbot">>, <<"moltbot">>, <<"openclaw">> >>

DefaultCli == <<"clawdbot">>

NvmRoot == Home \o <<"/", ".nvm", "/", "versions", "/", "node">>

CommonDirs ==
  << Home \o <<"/", ".local", "/", "bin">>,
     <<"/", "usr", "/", "local", "/", "bin">>,
     <<"/", "usr", "/", "bin">> >>

\* a plausible slip: the reference is used without ~-expansion
ExpandUser_Skipped(p) == p

\* os.path.expanduser: "~" and "~/..." expand to $HOME; "~name" asks the password
\* database, where no atom of the model names a user, so the path comes back as is.
ExpandUser(p) ==
  IF p = <<>> \/ Head(p) # "~" THEN p
  ELSE LET i == FindFrom(p, "/", 2)
           j == IF i = 0 THEN Len(p) + 1 ELSE i
       IN IF j = 2
            THEN LET out == RStrip(Home) \o SubSeq(p, j, Len(p))
                 IN IF out = <<>> THEN <<"/">> ELSE out
            ELSE p

\* os.path.isabs
IsAbs(p) == p # <<>> /\ Head(p) = "/"

\* os.access(path, os.X_OK): true of an executable regular file and of a
\* directory with the search bit set
Access(p, e) == p \in e.xfiles \/ p \in e.xdirs

\* shutil.which(name) over a PATH of one directory; None is <<>>
WhichOrNone(name, e) ==
  IF name # <<>> /\ name \in e.pathBins THEN PathDir \o <<"/">> \o name ELSE <<>>

\* pathlib's normal form of a relative path: no empty components, no trailing "/"
RECURSIVE PurePath(_)
PurePath(p) ==
  IF p = <<>> THEN <<>>
  ELSE IF Head(p) = "/" /\ (Len(p) = 1 \/ p[2] = "/") THEN PurePath(Tail(p))
  ELSE <<Head(p)>> \o PurePath(Tail(p))

----------------------------------------------------------------------------
(* _resolve_cli *)

\* the value of a numeral atom, int(m.group(i))
IntOf == [d \in {"0", "1", "2", "3", "10"} |->
            CASE d = "0" -> 0 [] d = "1" -> 1 [] d = "2" -> 2 [] d = "3" -> 3 [] d = "10" -> 10]

Digits == DOMAIN IntOf

\* re.match(r"^v(\d+)\.(\d+)\.(\d+)$", name): "$" also matches before one final
\* newline.  A run of digits is one numeral atom.
ParseSemverFromNvmDirname(name) ==
  LET n == IF name # <<>> /\ name[Len(name)] = "\n" THEN SubSeq(name, 1, Len(name) - 1) ELSE name
  IN IF /\ Len(n) = 6
        /\ n[1] = "v" /\ n[2] \in Digits /\ n[3] = "."
        /\ n[4] \in Digits /\ n[5] = "." /\ n[6] \in Digits
       THEN <<IntOf[n[2]], IntOf[n[4]], IntOf[n[6]]>>
       ELSE <<0, 0, 0>>

\* Python's tuple order on (major, minor, patch)
VerLess(a, b) ==
  \/ a[1] < b[1]
  \/ a[1] = b[1] /\ a[2] < b[2]
  \/ a[1] = b[1] /\ a[2] = b[2] /\ a[3] < b[3]

\* names = [primary] + [n for n in ("clawdbot", "moltbot", "openclaw") if n != primary]
CandidateNames(primary) == <<primary>> \o SelectSeq(Aliases, LAMBDA n : n # primary)

\* the hits of one version directory, in candidate order
RECURSIVE DirHits(_, _, _)
DirHits(d, names, k) ==
  IF k > Len(names) THEN <<>>
  ELSE (IF names[k] \in d.bins
          THEN << [ver  |-> ParseSemverFromNvmDirname(d.name),
                    path |-> NvmRoot \o <<"/">> \o d.name \o <<"/", "bin", "/">> \o names[k]] >>
          ELSE <<>>)
       \o DirHits(d, names, k + 1)

\* nvm_hits: for ver_dir in nvm_root.iterdir(): ... for name in names: ...
RECURSIVE NvmHits(_, _, _)
NvmHits(entries, names, k) ==
  IF k > Len(entries) THEN <<>>
  ELSE (IF entries[k].isDir THEN DirHits(entries[k], names, 1) ELSE <<>>)
       \o NvmHits(entries, names, k + 1)

\* a plausible slip: reverse=True forgotten, the oldest version comes first
RECURSIVE SortHitsAsc(_)
SortHitsAsc(hits) ==
  IF hits = <<>> THEN <<>>
  ELSE LET front  == SortHitsAsc(SubSeq(hits, 1, Len(hits) - 1))
           h      == hits[Len(hits)]
           before == SelectSeq(front, LAMBDA x : ~ VerLess(h.ver, x.ver))
           after  == SelectSeq(front, LAMBDA x : VerLess(h.ver, x.ver))
       IN before \o <<h>> \o after

\* list.sort(key=lambda t: t[0], reverse=True): stable, so hits of equal version
\* keep their discovery order
RECURSIVE SortHitsDesc(_)
SortHitsDesc(hits) ==
  IF hits = <<>> THEN <<>>
  ELSE LET front  == SortHitsDesc(SubSeq(hits, 1, Len(hits) - 1))
           h      == hits[Len(hits)]
           before == SelectSeq(front, LAMBDA x : ~ VerLess(x.ver, h.ver))
           after  == SelectSeq(front, LAMBDA x : VerLess(x.ver, h.ver))
       IN before \o <<h>> \o after

\* the first candidate name shutil.which finds, <<>> if none
RECURSIVE PathLookup(_, _, _)
PathLookup(names, e, k) ==
  IF k > Len(names) THEN <<>>
  ELSE IF WhichOrNone(names[k], e) # <<>> THEN WhichOrNone(names[k], e)
  ELSE PathLookup(names, e, k + 1)

\* a plausible slip: the loops nested the other way, a name before a directory
RECURSIVE CommonLookup_NameMajor(_, _, _, _)
CommonLookup_NameMajor(names, e, d, k) ==
  IF k > Len(names) THEN <<>>
  ELSE IF d > Len(CommonDirs) THEN CommonLookup_NameMajor(names, e, 1, k + 1)
  ELSE IF names[k] \in e.common[d] THEN CommonDirs[d] \o <<"/">> \o names[k]
  ELSE CommonLookup_NameMajor(names, e, d + 1, k)

\* for d in common_dirs: for name in names: first executable d/name, <<>> if none
RECURSIVE CommonLookup(_, _, _, _)
CommonLookup(names, e, d, k) ==
  IF d > Len(CommonDirs) THEN <<>>
  ELSE IF k > Len(names) THEN CommonLookup(names, e, d + 1, 1)
  ELSE IF names[k] \in e.common[d] THEN CommonDirs[d] \o <<"/">> \o names[k]
  ELSE CommonLookup(names, e, d, k + 1)

Resolved(path, found, configured, probed) ==
  [kind |-> "ok", path |-> path, found |-> found, configured |-> configured, probed |-> probed]

\* an exception leaving the call
Raised == [kind |-> "raise"]

\* a plausible slip: the default is applied but the blanks are kept
ConfiguredOf_Unstripped(cli) == IF Strip(cli) # <<>> THEN cli ELSE DefaultCli

\* configured = (cli or "").strip() or "clawdbot"
ConfiguredOf(cli) == IF Strip(cli) # <<>> THEN Strip(cli) ELSE DefaultCli

\* _resolve_cli(cli).  probed lists the search stages the call consulted.
ResolveCli(cli, e) ==
  LET configured == ConfiguredOf(cli)
      expanded   == ExpandUser(configured)
      names      == CandidateNames(expanded)
      onPath     == PathLookup(names, e, 1)
      hits       == IF e.nvmExists THEN NvmHits(e.nvm, names, 1) ELSE <<>>
      inCommon   == CommonLookup(names, e, 1, 1)
  IN IF IsAbs(expanded)
       THEN Resolved(expanded, Access(expanded, e), configured, {})
     ELSE IF Contains(expanded, "/")
       THEN IF Head(expanded) = "~"
              THEN Raised  \* Path.expanduser(): "Could not determine home directory."
              ELSE LET p == e.cwd \o <<"/">> \o PurePath(expanded)
                   IN Resolved(p, Access(p, e), configured, {})
     ELSE IF onPath # <<>>
       THEN Resolved(onPath, TRUE, configured, {"PATH"})
     ELSE IF hits # <<>>
       THEN Resolved(SortHitsDesc(hits)[1].path, TRUE, configured, {"PATH", "nvm"})
     ELSE IF inCommon # <<>>
       THEN Resolved(inCommon, TRUE, configured, {"PATH", "nvm", "common"})
     ELSE Resolved(expanded, FALSE, configured, {"PATH", "nvm", "common"})

----------------------------------------------------------------------------
(* shlex, as _split_cmd, _terminal_argv and _open_terminal use it *)

Quotes == {"'", "\""}

Backslash == "\\"

\* the atoms of the model that hold a character outside shlex's safe set
\* [A-Za-z0-9_@%+=:,./-]
UnsafeAtoms == WS \cup Quotes \cup {Backslash, ";", "$", "{cmd}", "${SHELL:-bash}"}

SplitFail == [ok |-> FALSE, tokens |-> <<>>]

\* a finished token is kept when it is not empty or was quoted
Emit(tokens, token, quoted) == IF token # <<>> \/ quoted THEN Append(tokens, token) ELSE tokens

\* shlex.shlex(s, posix=True) with whitespace_split, read to the end.  state is
\* "ws" between tokens, "word" inside one, a quote inside quotes, "esc" after a
\* backslash (esc: the state to return to).
RECURSIVE ShlexRead(_, _, _, _, _, _, _)
ShlexRead(s, i, state, esc, token, quoted, tokens) ==
  IF i > Len(s)
    THEN IF state \in Quotes \/ state = "esc" THEN SplitFail  \* ValueError
         ELSE [ok |-> TRUE, tokens |-> IF state = "word" THEN Emit(tokens, token, quoted) ELSE tokens]
  ELSE LET c == s[i] IN
    CASE state = "ws" ->
           IF c \in WS THEN ShlexRead(s, i + 1, "ws", esc, token, quoted, tokens)
           ELSE IF c = Backslash THEN ShlexRead(s, i + 1, "esc", "word", token, quoted, tokens)
           ELSE IF c \in Quotes THEN ShlexRead(s, i + 1, c, esc, token, quoted, tokens)
           ELSE ShlexRead(s, i + 1, "word", esc, <<c>>, quoted, tokens)
      [] state \in Quotes ->
           IF c = state THEN ShlexRead(s, i + 1, "word", esc, token, TRUE, tokens)
           ELSE IF c = Backslash /\ state = "\"" THEN ShlexRead(s, i + 1, "esc", state, token, TRUE, tokens)
           ELSE ShlexRead(s, i + 1, state, esc, Append(token, c), TRUE, tokens)
      [] state = "esc" ->
           IF esc \in Quotes /\ c # Backslash /\ c # esc
             THEN ShlexRead(s, i + 1, esc, esc, token \o <<Backslash, c>>, quoted, tokens)
             ELSE ShlexRead(s, i + 1, esc, esc, Append(token, c), quoted, tokens)
      [] OTHER ->  \* "word"
           IF c \in WS THEN ShlexRead(s, i + 1, "ws", esc, <<>>, FALSE, Emit(tokens, token, quoted))
           ELSE IF c \in Quotes THEN ShlexRead(s, i + 1, c, esc, token, quoted, tokens)
           ELSE IF c = Backslash THEN ShlexRead(s, i + 1, "esc", "word", token, quoted, tokens)
           ELSE ShlexRead(s, i + 1, "word", esc, Append(token, c), quoted, tokens)

\* shlex.split(s)
ShlexSplit(s) == ShlexRead(s, 1, "ws", "word", <<>>, FALSE, <<>>)

\* _split_cmd(cmd)
SplitCmd(cmd) == IF Strip(cmd) # <<>> THEN ShlexSplit(cmd) ELSE [ok |-> TRUE, tokens |-> <<>>]

\* str.replace(old, new) for a one-atom old
RECURSIVE Replace(_, _, _)
Replace(s, old, new) ==
  IF s = <<>> THEN <<>>
  ELSE (IF Head(s) = old THEN new ELSE <<Head(s)>>) \o Replace(Tail(s), old, new)

\* shlex.quote(s)
ShlexQuote(s) ==
  IF s = <<>> THEN <<"'", "'">>
  ELSE IF \A i \in DOMAIN s : s[i] \notin UnsafeAtoms THEN s
  ELSE <<"'">> \o Replace(s, "'", <<"'", "\"", "'", "\"", "'">>) \o <<"'">>

\* shlex.join(tokens)
RECURSIVE ShlexJoin(_)
ShlexJoin(tokens) ==
  IF tokens = <<>> THEN <<>>
  ELSE IF Len(tokens) = 1 THEN ShlexQuote(tokens[1])
  ELSE ShlexQuote(Head(tokens)) \o <<" ">> \o ShlexJoin(Tail(tokens))

\* position of the last "/" of p, 0 if none
RECURSIVE LastSlash(_, _)
LastSlash(p, i) == IF i = 0 THEN 0 ELSE IF p[i] = "/" THEN i ELSE LastSlash(p, i - 1)

\* os.path.basename
Basename(p) == SubSeq(p, LastSlash(p, Len(p)) + 1, Len(p))

----------------------------------------------------------------------------
(* _resolve_terminal, _terminal_argv, _open_terminal *)

TerminalCandidates ==
  << <<"x-terminal-emulator">>, <<"kitty">>, <<"alacritty">>, <<"konsole">>,
     <<"gnome-terminal">>, <<"xterm">> >>

\* for name in candidates: if _which_or_none(name): return name
RECURSIVE FirstInstalled(_, _, _)
FirstInstalled(names, e, k) ==
  IF k > Len(names) THEN <<>>
  ELSE IF WhichOrNone(names[k], e) # <<>> THEN names[k]
  ELSE FirstInstalled(names, e, k + 1)

\* a plausible slip: $TERMINAL is looked at before the configured reference
ResolveTerminal_EnvFirst(config_terminal, e) ==
  IF Strip(e.TERMINAL) # <<>> THEN Strip(e.TERMINAL)
  ELSE IF Strip(config_terminal) # <<>> THEN Strip(config_terminal)
  ELSE FirstInstalled(TerminalCandidates, e, 1)

\* _resolve_terminal(config_terminal)
ResolveTerminal(config_terminal, e) ==
  IF Strip(config_terminal) # <<>> THEN Strip(config_terminal)
  ELSE IF Strip(e.TERMINAL) # <<>> THEN Strip(e.TERMINAL)
  ELSE FirstInstalled(TerminalCandidates, e, 1)

Argv(tokens) == [kind |-> "ok", argv |-> tokens]

\* a plausible slip: konsole handled like kitty, without -e
TerminalSuffix_KonsoleAsKitty(exe, shell_cmd) ==
  CASE exe = <<"kitty">>          -> << <<"--hold">>, <<"sh">>, <<"-lc">>, shell_cmd >>
    [] exe = <<"konsole">>        -> << <<"--hold">>, <<"sh">>, <<"-lc">>, shell_cmd >>
    [] exe = <<"gnome-terminal">> -> << <<"--">>, <<"bash">>, <<"-lc">>, shell_cmd >>
    [] exe = <<"xterm">>          -> << <<"-hold">>, <<"-e">>, <<"sh">>, <<"-lc">>, shell_cmd >>
    [] OTHER                      -> << <<"-e">>, <<"sh">>, <<"-lc">>, shell_cmd >>

\* the arguments appended for the terminal whose base name is exe
TerminalSuffix(exe, shell_cmd) ==
  CASE exe = <<"kitty">>          -> << <<"--hold">>, <<"sh">>, <<"-lc">>, shell_cmd >>
    [] exe = <<"konsole">>        -> << <<"--hold">>, <<"-e">>, <<"sh">>, <<"-lc">>, shell_cmd >>
    [] exe = <<"gnome-terminal">> -> << <<"--">>, <<"bash">>, <<"-lc">>, shell_cmd >>
    [] exe = <<"xterm">>          -> << <<"-hold">>, <<"-e">>, <<"sh">>, <<"-lc">>, shell_cmd >>
    [] OTHER                      -> << <<"-e">>, <<"sh">>, <<"-lc">>, shell_cmd >>

\* _terminal_argv(terminal_cmd, shell_cmd); a ValueError of shlex.split leaves the call
TerminalArgv(terminal_cmd, shell_cmd) ==
  IF Strip(terminal_cmd) = <<>> THEN Argv(<<>>)
  ELSE IF Contains(terminal_cmd, "{cmd}")
    THEN LET r == SplitCmd(Replace(terminal_cmd, "{cmd}", ShlexQuote(shell_cmd)))
         IN IF r.ok THEN Argv(r.tokens) ELSE Raised
  ELSE LET term == SplitCmd(terminal_cmd)
       IN IF ~ term.ok THEN Raised
          ELSE IF term.tokens = <<>> THEN Argv(<<>>)
          ELSE Argv(term.tokens \o TerminalSuffix(Basename(term.tokens[1]), shell_cmd))

\* "; echo; exec "${SHELL:-bash}" -l"
KeepOpen == <<";", " ", "echo", ";", " ", "exec", " ", "\"", "${SHELL:-bash}", "\"", " ", "-l">>

\* shell_cmd = f"{shlex.join(list(command))}; echo; exec \"${{SHELL:-bash}}\" -l"
ShellCmdOf(command) == ShlexJoin(command) \o KeepOpen

NoTerminalMsg == <<"No terminal emulator found">>

\* _open_terminal(command): what it spawns or notifies; spawned says whether
\* subprocess.Popen succeeded
OpenTerminal(command, config_terminal, e, spawned) ==
  LET terminal_cmd == ResolveTerminal(config_terminal, e)
      a            == TerminalArgv(terminal_cmd, ShellCmdOf(command))
  IN IF terminal_cmd = <<>> THEN [kind |-> "notify", msg |-> NoTerminalMsg, terminal |-> terminal_cmd]
     ELSE IF a.kind = "raise" THEN [kind |-> "raise", terminal |-> terminal_cmd]
     ELSE IF a.argv = <<>> THEN [kind |-> "notify", msg |-> NoTerminalMsg, terminal |-> terminal_cmd]
     ELSE IF spawned THEN [kind |-> "spawn", argv |-> a.argv, terminal |-> terminal_cmd]
     ELSE [kind |-> "notify", msg |-> <<"Failed to open terminal: ", "<e>">>, terminal |-> terminal_cmd]

----------------------------------------------------------------------------
(* Letter case.  The words of the model, each as lower case, as written in     *)
(* mixed case, and as upper case; an atom outside the table has no letters.    *)

CaseTable ==
  { <<"ok", "Ok", "OK">>, <<"up", "Up", "UP">>, <<"reachable", "Reachable", "REACHABLE">>,
    <<"running", "Running", "RUNNING">>, <<"connected", "Connected", "CONNECTED">>,
    <<"configured", "Configured", "CONFIGURED">>, <<"linked", "Linked", "LINKED">>,
    <<"down", "Down", "DOWN">>, <<"error", "Error", "ERROR">>, <<"missing", "Missing", "MISSING">>,
    <<"unlinked", "Unlinked", "UNLINKED">>, <<"disconnected", "Disconnected", "DISCONNECTED">>,
    <<"true", "True", "TRUE">>, <<"false", "False", "FALSE">>, <<"none", "None", "NONE">>,
    <<"warn", "Warn", "WARN">>, <<"on", "On", "ON">>, <<"idle", "Idle", "IDLE">>,
    <<"gateway", "Gateway", "GATEWAY">>, <<"telegram", "Telegram", "TELEGRAM">>,
    <<"whatsapp", "WhatsApp", "WHATSAPP">>, <<"sessions", "Sessions", "SESSIONS">>,
    <<"tg", "Tg", "TG">>, <<"wa", "Wa", "WA">>, <<"usage", "Usage", "USAGE">> }

CaseRow(a) == CHOOSE r \in CaseTable : a \in {r[1], r[2], r[3]}

HasCase(a) == \E r \in CaseTable : a \in {r[1], r[2], r[3]}

\* str.lower() and str.upper()
Lower(s) == [i \in DOMAIN s |-> IF HasCase(s[i]) THEN CaseRow(s[i])[1] ELSE s[i]]

Upper(s) == [i \in DOMAIN s |-> IF HasCase(s[i]) THEN CaseRow(s[i])[3] ELSE s[i]]

\* an atom that [A-Z]+ matches
IsUpperWord(a) == \E r \in CaseTable : a = r[3]

\* s.split()[0] of a string that is not blank
FirstWord(s) ==
  LET t == LStrip(s)
      RECURSIVE Run(_)
      Run(k) == IF k > Len(t) \/ t[k] \in WS THEN k - 1 ELSE Run(k + 1)
  IN SubSeq(t, 1, Run(1))

----------------------------------------------------------------------------
(* JSON values as json.loads returns them *)

JNull == [t |-> "null"]

JBool(b) == [t |-> "bool", b |-> b]

JInt(n) == [t |-> "int", n |-> n]

JStr(s) == [t |-> "str", s |-> s]

JList(items) == [t |-> "list", items |-> items]

\* f maps the keys present to their values
JObj(f) == [t |-> "obj", f |-> f]

NoKeys == [k \in {} |-> JNull]

\* dict.get(key): None for a missing key
Get(obj, key) == IF key \in DOMAIN obj.f THEN obj.f[key] ELSE JNull

\* Python truth value
Truthy(v) ==
  CASE v.t = "null" -> FALSE
    [] v.t = "bool" -> v.b
    [] v.t = "int"  -> v.n # 0
    [] v.t = "str"  -> v.s # <<>>
    [] v.t = "list" -> v.items # <<>>
    [] OTHER        -> DOMAIN v.f # {}

\* a or b
PyOr(a, b) == IF Truthy(a) THEN a ELSE b

\* the numeral atom of a small integer
Numeral(n) == CHOOSE d \in Digits : IntOf[d] = n

\* str(v); the text of a list or a dict is one opaque atom
PyStr(v) ==
  CASE v.t = "null" -> <<"None">>
    [] v.t = "bool" -> IF v.b THEN <<"True">> ELSE <<"False">>
    [] v.t = "int"  -> <<Numeral(v.n)>>
    [] v.t = "str"  -> v.s
    [] OTHER        -> <<"<repr>">>

----------------------------------------------------------------------------
(* _status_summary: the structured path *)

Unresolved == <<"?">>

OkWords == { <<"ok">>, <<"up">>, <<"reachable">>, <<"running">>, <<"connected">>, <<"configured">>, <<"linked">> }

DownWords == { <<"down">>, <<"error">>, <<"missing">>, <<"unlinked">>, <<"disconnected">> }

\* normalize_chan_state on a string
NormalizeText(text) ==
  LET s    == Strip(text)
      word == Lower(FirstWord(s))
  IN IF s = <<>> THEN Unresolved
     ELSE IF word \in OkWords THEN <<"OK">>
     ELSE IF word \in DownWords THEN <<"DOWN">>
     ELSE Upper(word)

\* normalize_chan_state(raw): str(raw or "")
NormalizeChanState(raw) == NormalizeText(IF Truthy(raw) THEN PyStr(raw) ELSE <<>>)

GatewayOkWords == { <<"ok">>, <<"up">>, <<"reachable">>, <<"running">> }

\* gateway_ok of the structured path
GatewayOkJson(gateway) ==
  LET st == IF Get(gateway, "state") # JNull THEN Get(gateway, "state") ELSE Get(gateway, "reachable")
  IN st = JBool(TRUE) \/ (st.t = "str" /\ Lower(st.s) \in GatewayOkWords)

Chan(tg, wa) == [tg |-> tg, wa |-> wa, raised |-> FALSE]

ChanRaised == [tg |-> Unresolved, wa |-> Unresolved, raised |-> TRUE]

\* the loop over data["channels"]: a name that is not a string has no .lower()
RECURSIVE ChannelsLoop(_, _, _)
ChannelsLoop(items, k, st) ==
  IF k > Len(items) \/ st.raised THEN st
  ELSE LET c == items[k] IN
    IF c.t # "obj" THEN ChannelsLoop(items, k + 1, st)
    ELSE LET name == PyOr(PyOr(Get(c, "channel"), Get(c, "name")), JStr(<<>>))
             state == NormalizeChanState(PyOr(Get(c, "state"), Get(c, "status")))
         IN IF name.t # "str" THEN ChanRaised
            ELSE ChannelsLoop(items, k + 1,
                   Chan(IF Lower(name.s) = <<"telegram">> THEN state ELSE st.tg,
                        IF Lower(name.s) = <<"whatsapp">> THEN state ELSE st.wa))

\* channels = data.get("channels") or data.get("channelStatus") or []
ChannelsPass(data, st) ==
  LET channels == PyOr(PyOr(Get(data, "channels"), Get(data, "channelStatus")), JList(<<>>))
  IN IF channels.t = "list" THEN ChannelsLoop(channels.items, 1, st) ELSE st

\* line.startswith(label + ":")
StartsWithLabel(line, label) == Len(line) >= 2 /\ line[1] = label /\ line[2] = ":"

\* the loop over data["channelSummary"]; line.split(":", 1)[1] is what follows
\* the first colon
RECURSIVE SummaryLoop(_, _, _)
SummaryLoop(lines, k, st) ==
  IF k > Len(lines) THEN st
  ELSE LET line == lines[k] IN
    IF line.t # "str" THEN SummaryLoop(lines, k + 1, st)
    ELSE LET rest == SubSeq(line.s, 3, Len(line.s))
         IN SummaryLoop(lines, k + 1,
              Chan(IF StartsWithLabel(line.s, "Telegram") THEN NormalizeText(rest) ELSE st.tg,
                   IF StartsWithLabel(line.s, "WhatsApp") THEN NormalizeText(rest) ELSE st.wa))

SummaryPass(data, st) ==
  LET summary == Get(data, "channelSummary")
  IN IF summary.t = "list" THEN SummaryLoop(summary.items, 1, st) ELSE st

\* WhatsApp as the "linkChannel"
LinkPass(data, st) ==
  LET link == Get(data, "linkChannel")
  IN IF link.t = "obj" /\ Get(link, "id") = JStr(<<"whatsapp">>) /\ Get(link, "linked") = JBool(TRUE)
       THEN Chan(st.tg, <<"OK">>)
       ELSE st

\* session_count
SessionCount(data) ==
  LET sessions == Get(data, "sessions")
      inner    == IF sessions.t # "obj" THEN JNull
                  ELSE IF Get(sessions, "active") # JNull THEN Get(sessions, "active")
                  ELSE Get(sessions, "count")
  IN IF inner # JNull THEN inner ELSE Get(data, "sessionCount")

\* the separator of the summary, blank, middle dot (U+00B7), blank, in ASCII
Sep == " . "

\* Sep.join(parts) with the optional sessions part
Render(gateway_ok, tg, wa, sessions) ==
  <<"Gateway", " ", IF gateway_ok THEN "OK" ELSE "DOWN">>
    \o <<Sep, "TG", " ">> \o tg \o <<Sep, "WA", " ">> \o wa
    \o (IF sessions = <<>> THEN <<>> ELSE <<Sep, "Sessions", " ">> \o sessions)

Text(atoms) == [kind |-> "text", text |-> atoms]

\* the channel states after each of the three reads, in reading order
ChannelReads(data) ==
  LET a == ChannelsPass(data, Chan(Unresolved, Unresolved))
      b == SummaryPass(data, a)
      c == LinkPass(data, b)
  IN IF a.raised THEN <<>> ELSE <<a, b, c>>

\* the body of the loop after json.loads succeeded.  data.get on a value that is
\* not a dict, and gateway.get on a truthy value that is not a dict, raise
\* AttributeError; isinstance(x, int) holds of a bool too.
StructuredSummary(data) ==
  IF data.t # "obj" THEN Raised
  ELSE LET gateway == PyOr(Get(data, "gateway"), JObj(NoKeys))
           reads   == ChannelReads(data)
           count   == SessionCount(data)
       IN IF gateway.t # "obj" THEN Raised
          ELSE IF reads = <<>> THEN Raised
          ELSE Text(Render(GatewayOkJson(gateway), reads[3].tg, reads[3].wa,
                           IF count.t \in {"int", "bool"} THEN PyStr(count) ELSE <<>>))

----------------------------------------------------------------------------
(* _parse_status_text and the plain-text path.  A text is one flat string; its  *)
(* lines end in "\n".  A run of digits is one numeral atom, a word is one atom. *)

\* the box-drawing vertical bar (U+2502) of the status tables, in ASCII
Bar == "|"

\* atoms whose first character is not a word character, for \b
NonWordAtoms == WS \cup {":", Bar, "+44", "(", ")", ","}

\* first index at or after i that holds no whitespace, Len + 1 if none: \s*
RECURSIVE SkipWs(_, _)
SkipWs(text, i) == IF i <= Len(text) /\ text[i] \in WS THEN SkipWs(text, i + 1) ELSE i

\* last index of the line that index i lies on
RECURSIVE LineEnd(_, _)
LineEnd(text, i) == IF i < Len(text) /\ text[i + 1] # "\n" THEN LineEnd(text, i + 1) ELSE i

\* (?m)^ matches at i
AtLineStart(text, i) == i = 1 \/ text[i - 1] = "\n"

\* ^\s* can end just before j: only whitespace between some line start and j
AfterLineStart(text, j) ==
  \E i \in 1..j : AtLineStart(text, i) /\ \A k \in i..(j - 1) : text[k] \in WS

\* ^\s*label\s*: matches with the label at j, ignoring case; the index of the colon, else 0
LabelColon(text, j, label) ==
  IF /\ j <= Len(text)
     /\ Lower(<<text[j]>>) = Lower(<<label>>)
     /\ AfterLineStart(text, j)
     /\ SkipWs(text, j + 1) <= Len(text)
     /\ text[SkipWs(text, j + 1)] = ":"
    THEN SkipWs(text, j + 1)
    ELSE 0

\* find_state(label): re.search(r"(?im)^\s*label\s*:\s*([^\n]+)$", text), the
\* group stripped; <<>> stands for no match and for an empty group alike
RECURSIVE FindStateFrom(_, _, _)
FindStateFrom(text, label, j) ==
  IF j > Len(text) THEN <<>>
  ELSE LET colon == LabelColon(text, j, label)
           m     == SkipWs(text, colon + 1)
       IN IF colon = 0 THEN FindStateFrom(text, label, j + 1)
          ELSE IF m > Len(text) THEN <<>>
          ELSE Strip(SubSeq(text, m, LineEnd(text, m)))

FindState(text, label) == FindStateFrom(text, label, 1)

\* re.search(r"(?im)^\s*Sessions\s*:\s*(\d+)\b", text): the numeral, <<>> if none
RECURSIVE FindSessionsFrom(_, _)
FindSessionsFrom(text, j) ==
  IF j > Len(text) THEN <<>>
  ELSE LET colon == LabelColon(text, j, "Sessions")
           m     == SkipWs(text, colon + 1)
       IN IF /\ colon # 0
             /\ m <= Len(text)
             /\ text[m] \in Digits
             /\ (m = Len(text) \/ text[m + 1] \in NonWordAtoms)
            THEN <<text[m]>>
            ELSE FindSessionsFrom(text, j + 1)

\* _parse_status_text(text)
ParseStatusText(text) ==
  [ gateway  |-> IF FindState(text, "Gateway") # <<>> THEN FindState(text, "Gateway") ELSE FindState(text, "gateway"),
    telegram |-> IF FindState(text, "Telegram") # <<>> THEN FindState(text, "Telegram") ELSE FindState(text, "TG"),
    whatsapp |-> IF FindState(text, "WhatsApp") # <<>> THEN FindState(text, "WhatsApp") ELSE FindState(text, "WA"),
    sessions |-> FindSessionsFrom(text, 1) ]

\* \s*([A-Z]+)\s*| matched right after index p: the upper-case word, <<>> if none
CellAfter(text, p) ==
  LET q == SkipWs(text, p + 1)
      r == SkipWs(text, q + 1)
  IN IF q <= Len(text) /\ IsUpperWord(text[q]) /\ r <= Len(text) /\ text[r] = Bar
       THEN <<text[q]>>
       ELSE <<>>

\* .*?| as lazily as possible from index p on: the first bar of the line after
\* which an upper-case cell follows
RECURSIVE LazyCell(_, _)
LazyCell(text, p) ==
  IF p > Len(text) \/ text[p] = "\n" THEN <<>>
  ELSE IF text[p] = Bar /\ CellAfter(text, p) # <<>> THEN CellAfter(text, p)
  ELSE LazyCell(text, p + 1)

\* table_state(label): re.search(r"(?m)^|\s*label\s*|.*?|\s*([A-Z]+)\s*|", out)
\* with | the box-drawing bar
RECURSIVE TableStateFrom(_, _, _)
TableStateFrom(text, label, i) ==
  IF i > Len(text) THEN <<>>
  ELSE LET j == SkipWs(text, i + 1)
           k == SkipWs(text, j + 1)
       IN IF /\ AtLineStart(text, i) /\ text[i] = Bar
             /\ j <= Len(text) /\ text[j] = label
             /\ k <= Len(text) /\ text[k] = Bar
             /\ LazyCell(text, k + 1) # <<>>
            THEN LazyCell(text, k + 1)
            ELSE TableStateFrom(text, label, i + 1)

TableState(text, label) == TableStateFrom(text, label, 1)

PlainOkWords == { <<"ok">>, <<"up">>, <<"running">>, <<"reachable">>, <<"true">> }

\* the summary of the plain-text path for a `status` that exited 0
FallbackSummary(out) ==
  LET parsed == ParseStatusText(out)
      tg0    == Upper(Strip(IF parsed.telegram # <<>> THEN parsed.telegram ELSE Unresolved))
      wa0    == Upper(Strip(IF parsed.whatsapp # <<>> THEN parsed.whatsapp ELSE Unresolved))
      table  == tg0 = Unresolved \/ wa0 = Unresolved
      tg     == IF table /\ TableState(out, "Telegram") # <<>> THEN TableState(out, "Telegram") ELSE tg0
      wa     == IF table /\ TableState(out, "WhatsApp") # <<>> THEN TableState(out, "WhatsApp") ELSE wa0
  IN Text(Render(Lower(Strip(parsed.gateway)) \in PlainOkWords, tg, wa, parsed.sessions))

\* repr of a bytes value, as an f-string shows it: b'...', with backslash, newline
\* and tab escaped; double quotes delimit when only single ones occur inside
BytesRepr(s) ==
  LET single == \E i \in DOMAIN s : s[i] = "'"
      double == \E i \in DOMAIN s : s[i] = "\""
      delim  == IF single /\ ~ double THEN "\"" ELSE "'"
      e1     == Replace(s, "\\", <<"\\", "\\">>)
      e2     == Replace(Replace(e1, "\n", <<"\\", "n">>), "\t", <<"\\", "t">>)
      e3     == IF single /\ double THEN Replace(e2, "'", <<"\\", "'">>) ELSE e2
  IN <<"b", delim>> \o e3 \o <<delim>>

\* the summary for a plain `status` that did not exit 0: the message is err or
\* out, a str or, after a timeout, bytes
StatusFailed(out, err) ==
  LET msg == IF Strip(err.atoms) # <<>> THEN [err EXCEPT !.atoms = Strip(@)]
             ELSE IF Strip(out.atoms) # <<>> THEN [out EXCEPT !.atoms = Strip(@)]
             ELSE [k |-> "text", atoms |-> <<"unavailable">>]
  IN Text(<<"Status: ">> \o (IF msg.k = "bytes" THEN BytesRepr(msg.atoms) ELSE msg.atoms))

----------------------------------------------------------------------------
(* _run and the CLI *)

\* stdout as text, or as the text of a JSON document (json.loads gives doc)
TextOut(atoms) == [k |-> "text", atoms |-> atoms]

JsonOut(doc) == [k |-> "json", doc |-> doc]

\* output handed back as bytes: what subprocess.TimeoutExpired carries
BytesOut(atoms) == [k |-> "bytes", atoms |-> atoms]

\* how a child process ended
Exited(code, stdout, stderr) == [how |-> "exit", code |-> code, stdout |-> stdout, stderr |-> stderr]

TimedOut == [how |-> "timeout", code |-> 0, stdout |-> TextOut(<<>>), stderr |-> <<>>]

SpawnFailed == [how |-> "error", code |-> 0, stdout |-> TextOut(<<>>), stderr |-> <<"No such file">>]

\* _run(args): (rc, out, err).  The output a timed-out child wrote comes back
\* as bytes (e.stdout, e.stderr), everything else as str.
Run(proc) ==
  CASE proc.how = "exit"    -> [rc |-> proc.code, out |-> proc.stdout, err |-> TextOut(proc.stderr)]
    [] proc.how = "timeout" ->
         [rc  |-> 124,
          out |-> IF proc.stdout.atoms # <<>> THEN BytesOut(proc.stdout.atoms) ELSE TextOut(<<>>),
          err |-> IF proc.stderr # <<>> THEN BytesOut(proc.stderr) ELSE TextOut(<<"Timed out">>)]
    [] OTHER                -> [rc |-> 127, out |-> TextOut(<<>>), err |-> TextOut(proc.stderr)]

\* not out.strip()
BlankOut(out) == out.k # "json" /\ Strip(out.atoms) = <<>>

\* a plausible slip: the exit status is not looked at
Accepted_AnyExit(r) == ~ BlankOut(r.out) /\ r.out.k = "json"

\* a structured attempt is used: rc == 0, output not blank, json.loads succeeds
Accepted(r) == r.rc = 0 /\ ~ BlankOut(r.out) /\ r.out.k = "json"

\* the argument forms, in the order _status_summary tries them
Forms == << <<"status", "--json">>, <<"status", "--format", "json">>, <<"status">> >>

NotFoundMsg ==
  <<"CLI not found (", "clawdbot", "). Set 'cli' in ", "~/.config/claw-runner/config.json">>

----------------------------------------------------------------------------
(* The machines and the arguments the resolver is run on *)

\* most blanks put before and after a configured reference
MaxPad == 1

\* most entries of the nvm versions directory
MaxVerDirs == 2

BinNames == {<<"clawdbot">>, <<"moltbot">>, <<"openclaw">>, <<"foo">>}

OptFoo == <<"/", "opt", "/", "foo">>

CliCores ==
  { <<>>, <<"clawdbot">>, <<"openclaw">>, <<"foo">>, <<"~", "foo">>,
    OptFoo, <<"~">>, <<"~", "/", "foo">>, <<"bin", "/", "foo">>, <<"~", "foo", "/", "foo">> }

CliInputs == { Repeat(" ", l) \o c \o Repeat(" ", r) : c \in CliCores, l \in 0..MaxPad, r \in 0..MaxPad }

NoCommon == [d \in 1..3 |-> {}]

PermSets ==
  { [xfiles |-> {}, xdirs |-> {}],
    [xfiles |-> {OptFoo, Home \o <<"/", "foo">>, Home \o <<"/", "bin", "/", "foo">>}, xdirs |-> {Home}],
    [xfiles |-> {<<"/", "srv", "/", "bin", "/", "foo">>}, xdirs |-> {OptFoo, Home}] }

VerDir(name, bins) == [name |-> name, isDir |-> TRUE, bins |-> bins]

\* a plain file in the versions directory
VerFile(name) == [name |-> name, isDir |-> FALSE, bins |-> {}]

\* a machine.  The home directory is searchable on every one: the process sees
\* what lies under it (the nvm tree, ~/.local/bin), so os.access(Home, X_OK) holds.
MkEnv(pathBins, nvmExists, nvm, common, perms, cwd) ==
  [pathBins |-> pathBins, nvmExists |-> nvmExists, nvm |-> nvm, common |-> common,
   xfiles |-> perms.xfiles, xdirs |-> perms.xdirs \cup {Home}, cwd |-> cwd,
   TERMINAL |-> <<>>]

\* machines that differ in every search stage, in permissions and in the working directory
ResolverEnvs ==
  { MkEnv(pb, nv.exists, nv.entries, cm, pm, cwd) :
      pb  \in { {}, {<<"openclaw">>}, {<<"foo">>, <<"moltbot">>} },
      nv  \in { [exists |-> FALSE, entries |-> <<>>],
                [exists |-> TRUE, entries |-> << VerDir(<<"v", "2", ".", "1", ".", "0">>, {<<"clawdbot">>}) >>],
                [exists |-> TRUE, entries |-> << VerDir(<<"v", "1", ".", "2", ".", "3">>, {<<"foo">>, <<"openclaw">>}) >>] },
      cm  \in { NoCommon,
                [d \in 1..3 |-> IF d = 2 THEN {<<"clawdbot">>} ELSE {}],
                [d \in 1..3 |-> IF d = 1 THEN {<<"openclaw">>} ELSE IF d = 3 THEN {<<"foo">>, <<"clawdbot">>} ELSE {}] },
      pm  \in PermSets,
      cwd \in { Home, <<"/", "srv">> } }

VerDirNames ==
  { <<"v", "2", ".", "1", ".", "0">>, <<"v", "10", ".", "0", ".", "0">>,
    <<"v", "0", ".", "0", ".", "0">>, <<"v", "10", ".", "0", ".", "0", "-beta">>, <<"lts">> }

NvmEntries ==
  { VerDir(n, b) : n \in VerDirNames, b \in { {<<"clawdbot">>}, {<<"clawdbot">>, <<"openclaw">>} } }
  \cup { VerFile(<<"alias">>) }

\* directory listings: entries in iteration order, no name twice
NvmListings ==
  { l \in UNION { [1..n -> NvmEntries] : n \in 0..MaxVerDirs } :
      \A i, j \in DOMAIN l : i # j => l[i].name # l[j].name }

\* machines that differ in the nvm tree
NvmEnvs ==
  { MkEnv(pb, TRUE, l, cm, [xfiles |-> {}, xdirs |-> {}], Home) :
      pb \in { {}, {<<"moltbot">>} },
      l  \in NvmListings,
      cm \in { NoCommon, [d \in 1..3 |-> IF d = 3 THEN {<<"clawdbot">>} ELSE {}] } }

NoResult == [kind |-> "none"]

\* most atoms of a terminal reference handed to _terminal_argv
MaxTermLen == 4

TermAtoms == {"kitty", "konsole", "gnome-terminal", "xterm", "foot", " ", "/", "'", "-x", "{cmd}"}

TermRefs == UNION { [1..n -> TermAtoms] : n \in 0..MaxTermLen }

\* shell commands: two plain ones and the one _open_terminal builds for "echo hi"
ShellCmds ==
  { <<"echo", " ", "hi">>,
    <<"echo", " ", "'", "$", "'", ";", " ", "top">>,
    ShellCmdOf(<< <<"echo">>, <<"hi">> >>) }

TermConfigCores == { <<>>, <<"kitty">>, <<"foot", " ", "-x">>, <<"usr", "/", "xterm">>, <<"foot", " ", "{cmd}">>, <<"'", "foot">> }

TermConfigs == { Repeat(" ", l) \o c \o Repeat(" ", r) : c \in TermConfigCores, l \in 0..MaxPad, r \in 0..MaxPad }

Commands == { << <<"clawdbot">>, <<"status">>, <<"--all">> >>, << <<"my", " ", "cli">>, <<"status">> >> }

\* machines that differ in $TERMINAL and in the terminals installed
TerminalEnvs ==
  { [MkEnv(pb, FALSE, <<>>, NoCommon, [xfiles |-> {}, xdirs |-> {}], Home) EXCEPT !.TERMINAL = t] :
      pb \in SUBSET { TerminalCandidates[k] : k \in DOMAIN TerminalCandidates },
      t  \in { <<>>, <<" ">>, <<"konsole">>, <<" ", "alacritty", " ", "-x", " ">> } }

BareEnv == MkEnv({}, FALSE, <<>>, NoCommon, [xfiles |-> {}, xdirs |-> {}], Home)

NoCall == [op |-> "none"]

\* most items of a "channels" list
MaxChannels == 2

Obj1(k, v) == JObj(k :> v)

Obj2(k1, v1, k2, v2) == JObj((k1 :> v1) @@ (k2 :> v2))

S1(a) == JStr(<<a>>)

ChannelItems ==
  { Obj2("channel", S1("telegram"), "state", S1("up")),
    Obj2("channel", S1("whatsapp"), "state", S1("down")),
    Obj2("name", S1("Telegram"), "status", JStr(<<"Linked", " ", "+44">>)),
    Obj2("channel", JInt(3), "state", S1("up")),
    S1("telegram") }

ChannelLists == UNION { [1..n -> ChannelItems] : n \in 1..MaxChannels }

\* the parts a status document is put together from; NoKeys leaves the part out
GatewayParts ==
  { NoKeys,
    "gateway" :> Obj1("state", S1("ok")),
    "gateway" :> Obj2("state", JNull, "reachable", JBool(TRUE)),
    "gateway" :> Obj1("state", S1("Down")),
    "gateway" :> S1("ok") }

ChannelParts == {NoKeys} \cup { "channels" :> JList(l) : l \in ChannelLists }

SummaryParts ==
  { NoKeys,
    "channelSummary" :> JList(<< JStr(<<"Telegram", ":", " ", "configured">>),
                                 JStr(<<"WhatsApp", ":", " ", "linked", " ", "+44">>) >>),
    "channelSummary" :> JList(<< JStr(<<"Telegram", ":", " ", "down">>), JInt(3),
                                 JStr(<<"WhatsApp", ":">>) >>) }

LinkParts ==
  { NoKeys,
    "linkChannel" :> Obj2("id", S1("whatsapp"), "linked", JBool(TRUE)),
    "linkChannel" :> Obj2("id", S1("whatsapp"), "linked", JBool(FALSE)) }

SessionParts ==
  { NoKeys,
    "sessions" :> Obj1("active", JInt(3)),
    "sessionCount" :> JInt(2) }

\* documents of other shapes: not an object, odd gateway and channel fields
OddDocs ==
  { JList(<<>>), JList(<<JInt(1)>>), JInt(3), S1("ok"), JNull, JBool(TRUE), JObj(NoKeys),
    Obj1("gateway", JBool(FALSE)), Obj1("gateway", JList(<<JInt(1)>>)), Obj1("gateway", JInt(1)),
    Obj1("channelStatus", JList(<< Obj2("channel", S1("telegram"), "state", S1("idle")) >>)),
    Obj1("channels", Obj1("telegram", S1("up"))),
    Obj1("channels", JList(<< Obj1("channel", S1("whatsapp")) >>)),
    Obj2("gateway", Obj1("reachable", S1("Running")), "sessions", Obj2("active", S1("3"), "count", JInt(2))),
    Obj1("sessions", Obj1("count", JBool(TRUE))) }

StatusDocs ==
  { JObj(g @@ c @@ m @@ l @@ n) :
      g \in GatewayParts, c \in ChannelParts, m \in SummaryParts, l \in LinkParts, n \in SessionParts }
  \cup OddDocs

\* how a structured attempt can end without being used
StructuredFailures ==
  { Exited(1, TextOut(<<>>), <<"boom">>),
    Exited(2, JsonOut(Obj1("gateway", Obj1("state", S1("ok")))), <<>>),
    Exited(0, TextOut(<<" ", "\n">>), <<>>),
    Exited(0, TextOut(<<"Usage", ":", " ", "status">>), <<>>),
    TimedOut,
    SpawnFailed }

StructuredProcs == StructuredFailures \cup { Exited(0, JsonOut(d), <<>>) : d \in StatusDocs }

Line(atoms) == atoms \o <<"\n">>

GatewayLines ==
  { <<>>, Line(<<"Gateway", ":", " ", "OK">>), Line(<<"gateway", " ", ":", " ", "running", " ", "(", "idle", ")">>),
    Line(<<"Gateway", ":">>), Line(<<"Gateway", ":", " ", "True">>) }

TelegramLines ==
  { <<>>, Line(<<"Telegram", ":", " ", "UP">>), Line(<<"TG", ":", " ", "linked", " ", "+44">>),
    Line(<<" ", "telegram", ":", "ok", " ">>) }

WhatsAppLines ==
  { <<>>, Line(<<"WhatsApp", ":", " ", "DOWN">>), Line(<<"WA", ":", " ", "Connected">>) }

SessionLines ==
  { <<>>, Line(<<"Sessions", ":", " ", "2">>), Line(<<"Sessions", ":", " ", "2", "idle">>) \o Line(<<"sessions", ":", "3", " ", "idle">>) }

TableLines ==
  { <<>>,
    Line(<<Bar, " ", "Telegram", " ", Bar, " ", "ON", " ", Bar, " ", "OK", " ", Bar>>)
      \o Line(<<Bar, " ", "WhatsApp", " ", Bar, " ", "ON", " ", Bar, " ", "linked", " ", Bar, " ", "WARN", " ", Bar>>),
    Line(<<Bar, "Telegram", Bar, "OK", Bar>>) \o Line(<<" ", Bar, " ", "WhatsApp", " ", Bar, " ", "ON", " ", Bar, " ", "OK", " ", Bar>>) }

\* what a plain `status` prints
PlainTexts ==
  { g \o t \o w \o n \o b :
      g \in GatewayLines, t \in TelegramLines, w \in WhatsAppLines, n \in SessionLines, b \in TableLines }

PlainProcs ==
  { Exited(0, TextOut(x), <<>>) : x \in PlainTexts }
  \cup { Exited(1, TextOut(<<>>), <<"boom", "\n">>), Exited(1, TextOut(<<"Usage", ":", " ", "status", "\n">>), <<>>),
         Exited(1, TextOut(<<>>), <<>>), TimedOut, SpawnFailed,
         [TimedOut EXCEPT !.stderr = <<"boom", "\n">>],
         [TimedOut EXCEPT !.stdout = TextOut(<<"ok", "\n">>)] }

\* how a child of _run can end: every exit status of the model with every output,
\* a timeout with or without partial output, and a failure to spawn
RunProcs ==
  { Exited(code, TextOut(o), e) :
      code \in {0, 1, 2, 124, 126, 127},
      o \in { <<>>, <<"ok", "\n">>, <<"Gateway", ":", " ", "OK", "\n">>, <<" ">> },
      e \in { <<>>, <<"boom", "\n">>, <<"Timed out">>, <<"No such file">>, <<"Permission denied">> } }
  \cup { [TimedOut EXCEPT !.stdout = TextOut(o), !.stderr = e] :
           o \in { <<>>, <<"ok", "\n">> }, e \in { <<>>, <<"boom", "\n">> } }
  \cup { [SpawnFailed EXCEPT !.stderr = e] : e \in { <<"No such file">>, <<"Permission denied">> } }

StatusClis == { <<"openclaw">>, OptFoo, <<"~", "foo", "/", "foo">> }

\* a machine without the CLI and one with an executable /opt/foo
StatusEnvs ==
  { BareEnv,
    MkEnv({}, FALSE, <<>>, NoCommon, [xfiles |-> {OptFoo}, xdirs |-> {}], Home) }

----------------------------------------------------------------------------
(* Specifications: each runs one part of the core on every input of its sets *)

vars == <<env, cliArg, res, termIn, termOut, cfgCli, pc, cliInfo, calls, chanReads, shown, runIn, runOut>>

resolverVars == <<cliArg, res>>

terminalVars == <<termIn, termOut>>

statusVars == <<cfgCli, pc, cliInfo, calls, chanReads, shown>>

runVars == <<runIn, runOut>>

IdleStatus == pc = "idle" /\ cliInfo = NoResult /\ calls = <<>> /\ chanReads = <<>> /\ shown = NoResult

Idle ==
  /\ cliArg = <<>> /\ res = NoResult
  /\ termIn = NoCall /\ termOut = NoResult
  /\ cfgCli = DefaultCli /\ IdleStatus
  /\ runIn = NoCall /\ runOut = NoResult

InitResolver == env \in ResolverEnvs \cup NvmEnvs /\ Idle

\* one call _resolve_cli(cli)
ResolveCliCall ==
  /\ res = NoResult
  /\ \E cli \in CliInputs :
    /\ cliArg' = cli
    /\ res' = ResolveCli(cli, env)
    /\ UNCHANGED <<env, terminalVars, statusVars, runVars>>

NextResolver == ResolveCliCall

SpecResolver == InitResolver /\ [][NextResolver]_vars

InitTerminal == env \in TerminalEnvs /\ Idle

\* one call _resolve_terminal(config_terminal)
ResolveTerminalCall ==
  /\ termIn = NoCall
  /\ \E cfg \in TermConfigs :
    /\ termIn' = [op |-> "resolve", terminal |-> cfg]
    /\ termOut' = [kind |-> "ok", terminal |-> ResolveTerminal(cfg, env)]
    /\ UNCHANGED <<env, resolverVars, statusVars, runVars>>

\* one call _open_terminal(command) under a configured terminal
OpenTerminalCall ==
  /\ termIn = NoCall
  /\ \E cfg \in TermConfigs, command \in Commands, spawned \in BOOLEAN :
    /\ termIn' = [op |-> "open", terminal |-> cfg, command |-> command]
    /\ termOut' = OpenTerminal(command, cfg, env, spawned)
    /\ UNCHANGED <<env, resolverVars, statusVars, runVars>>

NextTerminal == ResolveTerminalCall \/ OpenTerminalCall

SpecTerminal == InitTerminal /\ [][NextTerminal]_vars

InitArgv == env = BareEnv /\ Idle

\* one call _terminal_argv(terminal_cmd, shell_cmd)
TerminalArgvCall ==
  /\ termIn = NoCall
  /\ \E t \in TermRefs, c \in ShellCmds :
    /\ termIn' = [op |-> "argv", terminal |-> t, shell |-> c]
    /\ termOut' = TerminalArgv(t, c)
    /\ UNCHANGED <<env, resolverVars, statusVars, runVars>>

NextArgv == TerminalArgvCall

SpecArgv == InitArgv /\ [][NextArgv]_vars

InitStatus ==
  /\ env \in StatusEnvs
  /\ cfgCli \in StatusClis
  /\ cliArg = <<>> /\ res = NoResult
  /\ termIn = NoCall /\ termOut = NoResult
  /\ runIn = NoCall /\ runOut = NoResult
  /\ IdleStatus

Invocation(k, proc) == [args |-> <<cliInfo.path>> \o Forms[k], proc |-> proc]

\* _status_summary up to its first invocation: cli_info = _resolve_cli(self.config.cli)
StatusBegin ==
  /\ pc = "idle"
  /\ cliInfo' = ResolveCli(cfgCli, env)
  /\ IF cliInfo'.kind = "raise"
       THEN pc' = "done" /\ shown' = Raised
       ELSE IF ~ cliInfo'.found
         THEN pc' = "done" /\ shown' = Text(NotFoundMsg)
         ELSE pc' = "structured" /\ shown' = shown
  /\ UNCHANGED <<env, resolverVars, terminalVars, runVars, cfgCli, calls, chanReads>>

\* one turn of the loop over the two structured forms
TryStructured ==
  /\ pc = "structured"
  /\ \E proc \in StructuredProcs :
       LET k == Len(calls) + 1
           r == Run(proc)
       IN /\ calls' = Append(calls, Invocation(k, proc))
          /\ IF Accepted(r)
               THEN /\ pc' = "done"
                    /\ shown' = StructuredSummary(r.out.doc)
                    /\ chanReads' = IF shown'.kind = "text" THEN ChannelReads(r.out.doc) ELSE <<>>
               ELSE /\ pc' = IF k = 2 THEN "plain" ELSE "structured"
                    /\ UNCHANGED <<shown, chanReads>>
  /\ UNCHANGED <<env, resolverVars, terminalVars, runVars, cfgCli, cliInfo>>

\* the fallback: plain `status`
TryPlain ==
  /\ pc = "plain"
  /\ \E proc \in PlainProcs :
       LET r == Run(proc)
       IN /\ calls' = Append(calls, Invocation(3, proc))
          /\ shown' = IF r.rc # 0 THEN StatusFailed(r.out, r.err) ELSE FallbackSummary(r.out.atoms)
  /\ pc' = "done"
  /\ UNCHANGED <<env, resolverVars, terminalVars, runVars, cfgCli, cliInfo, chanReads>>

NextStatus == StatusBegin \/ TryStructured \/ TryPlain

SpecStatus == InitStatus /\ [][NextStatus]_vars

InitRun == env = BareEnv /\ Idle

\* one call _run(args) whose child ends as proc
RunCall ==
  /\ runIn = NoCall
  /\ \E proc \in RunProcs :
    /\ runIn' = [op |-> "run", proc |-> proc]
    /\ runOut' = Run(proc)
    /\ UNCHANGED <<env, resolverVars, terminalVars, statusVars>>

NextRun == RunCall

SpecRun == InitRun /\ [][NextRun]_vars

----------------------------------------------------------------------------
(* Claims about the status summary *)

Returned == pc = "done"

\* C1: _status_summary never raises: whatever its CLI invocations do (any exit
\* code, timeout, spawn error) and whatever they print, JSON that is not an
\* object or whose "gateway" is a truthy non-object included, the call returns a
\* display string.
C1_NeverRaises == Returned => shown.kind = "text"

\* `status --json` exits 0 and prints a JSON list: the call ends in an exception
C1_Witness ==
  /\ Returned /\ Len(calls) = 1
  /\ calls[1].proc = Exited(0, JsonOut(JList(<<JInt(1)>>)), <<>>)
  /\ shown = Raised

\* a structured attempt succeeded: exit 0 with output that parses as JSON
Succeeded(proc) == proc.how = "exit" /\ proc.code = 0 /\ proc.stdout.k = "json"

\* C2: with the CLI found, the forms are invoked in the fixed order status --json,
\* status --format json, status, each at most once; the call stops at and uses
\* the first structured form that succeeded, invokes plain status only when
\* neither structured form succeeded, and never invokes a form after a
\* successful one.
C2_FormsInOrderOnce ==
  /\ Len(calls) <= 3
  /\ calls # <<>> => cliInfo.kind = "ok" /\ cliInfo.found
  /\ \A i \in DOMAIN calls :
       /\ calls[i].args = <<cliInfo.path>> \o Forms[i]
       /\ \A j \in DOMAIN calls : j < i => ~ Succeeded(calls[j].proc)
  /\ (calls # <<>> /\ Len(calls) <= 2 /\ Succeeded(calls[Len(calls)].proc)) =>
       /\ Returned
       /\ shown = StructuredSummary(calls[Len(calls)].proc.stdout.doc)
  /\ (Returned /\ cliInfo.kind = "ok" /\ cliInfo.found) =>
       /\ calls # <<>>
       /\ Len(calls) = 3 \/ Succeeded(calls[Len(calls)].proc)

\* the first form exits 2 although it prints JSON, the second one succeeds and
\* is used, and plain status is never invoked
C2_Witness ==
  /\ Returned /\ Len(calls) = 2
  /\ calls[1].proc.how = "exit" /\ calls[1].proc.code = 2 /\ calls[1].proc.stdout.k = "json"
  /\ calls[1].args = <<OptFoo, "status", "--json">>
  /\ calls[2].args = <<OptFoo, "status", "--format", "json">>
  /\ Succeeded(calls[2].proc)
  /\ shown = Text(<<"Gateway", " ", "OK", Sep, "TG", " ", "?", Sep, "WA", " ", "?">>)

\* C3: the channel shapes are read in the order channels list, channelSummary,
\* linkChannel, and a later-read shape changes telegram or whatsapp only when
\* every earlier shape left it unresolved ("?"): a resolved state is never
\* overwritten.
C3_ResolvedNeverOverwritten ==
  \A i \in DOMAIN chanReads :
    i > 1 =>
      /\ chanReads[i - 1].tg # Unresolved => chanReads[i].tg = chanReads[i - 1].tg
      /\ chanReads[i - 1].wa # Unresolved => chanReads[i].wa = chanReads[i - 1].wa

\* the channels list says whatsapp is down, channelSummary says linked: OK is shown
C3_Witness ==
  /\ Returned /\ Len(chanReads) = 3
  /\ chanReads[1].wa = <<"DOWN">> /\ chanReads[2].wa = <<"OK">>
  /\ shown.kind = "text" /\ SubSeq(shown.text, Len(shown.text) - 2, Len(shown.text)) = <<"WA", " ", "OK">>

\* plain `status` was invoked and exited 0
PlainUsed == Returned /\ Len(calls) = 3 /\ calls[3].proc.how = "exit" /\ calls[3].proc.code = 0

\* the structured record holding the values the plain text gives: a channel's
\* value is the one of its line, or else the cell of its table row
PlainDoc(out) ==
  LET parsed == ParseStatusText(out)
      value(line, label) == JStr(IF line # <<>> THEN line ELSE TableState(out, label))
      chan(name, line, label) == JObj(("channel" :> JStr(<<name>>)) @@ ("state" :> value(line, label)))
  IN JObj(("gateway" :> JObj("state" :> JStr(parsed.gateway)))
          @@ ("channels" :> JList(<< chan("telegram", parsed.telegram, "Telegram"),
                                      chan("whatsapp", parsed.whatsapp, "WhatsApp") >>))
          @@ (IF parsed.sessions = <<>> THEN NoKeys
              ELSE "sessionCount" :> JInt(IntOf[parsed.sessions[1]])))

\* C4: when no structured form succeeds and plain `status` exits 0, the fallback
\* yields the summary the structured path yields for the same gateway, channel
\* and session values, the channel values going through the same vocabulary:
\* Gateway: OK, Telegram: UP, WhatsApp: DOWN, Sessions: 2 renders gateway OK,
\* telegram OK, whatsapp DOWN, sessions 2.
C4_FallbackEquivalent ==
  PlainUsed => shown = StructuredSummary(PlainDoc(calls[3].proc.stdout.atoms))

\* the text of the claim itself: telegram is shown as UP, not as OK
C4_Witness ==
  /\ PlainUsed
  /\ calls[3].proc.stdout.atoms =
       <<"Gateway", ":", " ", "OK", "\n", "Telegram", ":", " ", "UP", "\n",
         "WhatsApp", ":", " ", "DOWN", "\n", "Sessions", ":", " ", "2", "\n">>
  /\ shown = Text(<<"Gateway", " ", "OK", Sep, "TG", " ", "UP", Sep, "WA", " ", "DOWN", Sep, "Sessions", " ", "2">>)

\* ref occurs in text
Mentions(text, ref) ==
  \E i \in 1..Len(text) :
    i + Len(ref) - 1 <= Len(text) /\ SubSeq(text, i, i + Len(ref) - 1) = ref

\* C5: when the configured CLI resolves with found = false, _status_summary
\* invokes nothing and returns a string that names the reference the user
\* configured and tells the user to fix the configuration.
C5_NamesConfiguredReference ==
  (Returned /\ cliInfo.kind = "ok" /\ ~ cliInfo.found) =>
    /\ calls = <<>>
    /\ shown.kind = "text"
    /\ Mentions(shown.text, cliInfo.configured)
    /\ Mentions(shown.text, <<"). Set 'cli' in ">>)

\* openclaw is configured and installed nowhere: the message names clawdbot
C5_Witness ==
  /\ Returned /\ cfgCli = <<"openclaw">> /\ cliInfo.kind = "ok" /\ ~ cliInfo.found
  /\ calls = <<>>
  /\ shown = Text(NotFoundMsg) /\ ~ Mentions(shown.text, <<"openclaw">>)

----------------------------------------------------------------------------
(* Claims about the resolver *)

\* the reference after stripping, defaulting and ~-expansion, written out
RefOf(cli) ==
  LET c == IF Strip(cli) # <<>> THEN Strip(cli) ELSE <<"clawdbot">>
  IN IF Head(c) = "~" /\ (Len(c) = 1 \/ c[2] = "/") THEN Home \o Tail(c) ELSE c

BareRef(cli) == (RefOf(cli) = <<>> \/ Head(RefOf(cli)) # "/") /\ ~ Contains(RefOf(cli), "/")

\* the primary name and the aliases
AllNames(cli) == {RefOf(cli), <<"clawdbot">>, <<"moltbot">>, <<"openclaw">>}

OnPathSomewhere(cli) == AllNames(cli) \cap env.pathBins # {}

InNvmSomewhere(cli) ==
  env.nvmExists /\ \E i \in DOMAIN env.nvm : env.nvm[i].isDir /\ AllNames(cli) \cap env.nvm[i].bins # {}

InCommonSomewhere(cli) == \E d \in 1..3 : AllNames(cli) \cap env.common[d] # {}

FoundNowhere(cli) == ~ OnPathSomewhere(cli) /\ ~ InNvmSomewhere(cli) /\ ~ InCommonSomewhere(cli)

\* C6 as stated: a bare name found in none of PATH, the nvm tree and the common
\* directories resolves to found=false, path = the primary candidate name and
\* configured = the input string verbatim, blanks and the empty string included.
C6_Verbatim ==
  (res.kind # "none" /\ BareRef(cliArg) /\ FoundNowhere(cliArg)) =>
     /\ res.kind = "ok"
     /\ res.found = FALSE
     /\ res.path = RefOf(cliArg)
     /\ res.configured = cliArg

\* C6 amended: a bare name found nowhere resolves to found=false with path and
\* configured both equal to the input stripped of surrounding whitespace, or to
\* the default name clawdbot when the stripped input is empty.
C6_StrippedOrDefault ==
  (res.kind # "none" /\ BareRef(cliArg) /\ FoundNowhere(cliArg)) =>
     /\ res.kind = "ok"
     /\ res.found = FALSE
     /\ res.path = RefOf(cliArg)
     /\ res.configured = (IF Strip(cliArg) # <<>> THEN Strip(cliArg) ELSE <<"clawdbot">>)

\* a padded bare name that is installed nowhere has been resolved
C6_Witness ==
  /\ res.kind = "ok" /\ ~ res.found
  /\ cliArg = <<" ", "foo", " ">>
  /\ FoundNowhere(cliArg)
  /\ res.configured = <<"foo">>

\* C7: a reference that is absolute after ~-expansion resolves to exactly that
\* path, found is the executable-access check on that path alone, and no search
\* stage (PATH, aliases, nvm tree, common directories) is consulted, so the
\* result is a function of the reference and that one permission.
C7_AbsoluteVerbatim ==
  (res.kind # "none" /\ RefOf(cliArg) # <<>> /\ Head(RefOf(cliArg)) = "/") =>
     /\ res.kind = "ok"
     /\ res.path = RefOf(cliArg)
     /\ res.found = (RefOf(cliArg) \in env.xfiles \cup env.xdirs)
     /\ res.probed = {}

\* an absolute ~-reference that is not executable was resolved on a machine whose
\* PATH, nvm tree and common directories all hold the name
C7_Witness ==
  /\ res.kind = "ok" /\ cliArg = <<"~", "/", "foo">>
  /\ res.path = Home \o <<"/", "foo">> /\ ~ res.found
  /\ <<"foo">> \in env.pathBins /\ InNvmSomewhere(cliArg) /\ InCommonSomewhere(cliArg)

\* what each directory name of the model should parse to; names outside the
\* v<major>.<minor>.<patch> pattern are not in the table
VersionTable ==
  ( <<"v", "2", ".", "1", ".", "0">>  :> <<2, 1, 0>> ) @@
  ( <<"v", "10", ".", "0", ".", "0">> :> <<10, 0, 0>> ) @@
  ( <<"v", "0", ".", "0", ".", "0">>  :> <<0, 0, 0>> ) @@
  ( <<"v", "1", ".", "2", ".", "3">>  :> <<1, 2, 3>> )

Parseable(name) == name \in DOMAIN VersionTable

VersionOf(name) == IF Parseable(name) THEN VersionTable[name] ELSE <<0, 0, 0>>

TupleLess(a, b) ==
  \E k \in 1..3 : a[k] < b[k] /\ \A j \in 1..(k - 1) : a[j] = b[j]

\* candidate names in search order: the primary, then the other aliases
NamesInOrder(cli) ==
  <<RefOf(cli)>> \o SelectSeq(<< <<"clawdbot">>, <<"moltbot">>, <<"openclaw">> >>, LAMBDA n : n # RefOf(cli))

\* the hits of the nvm tree: (directory index, candidate index) pairs
HitKeys(cli) ==
  { k \in (DOMAIN env.nvm) \X (1..Len(NamesInOrder(cli))) :
      env.nvmExists /\ env.nvm[k[1]].isDir /\ NamesInOrder(cli)[k[2]] \in env.nvm[k[1]].bins }

HitPath(cli, k) ==
  Home \o <<"/", ".nvm", "/", "versions", "/", "node", "/">> \o env.nvm[k[1]].name
       \o <<"/", "bin", "/">> \o NamesInOrder(cli)[k[2]]

HitVer(k) == VersionOf(env.nvm[k[1]].name)

\* discovery order: directories in iteration order, candidates in order inside one
Earlier(j, k) == j[1] < k[1] \/ (j[1] = k[1] /\ j[2] < k[2])

NvmStage(cli) ==
  res.kind # "none" /\ BareRef(cliArg) /\ cliArg = cli /\ ~ OnPathSomewhere(cli) /\ HitKeys(cli) # {}

\* the hit the claim asks for: greatest version, first discovered among equals
Chosen(cli, k) ==
  /\ k \in HitKeys(cli)
  /\ \A j \in HitKeys(cli) : ~ TupleLess(HitVer(k), HitVer(j))
  /\ \A j \in HitKeys(cli) : HitVer(j) = HitVer(k) => ~ Earlier(j, k)

ResultDirParseable(cli) ==
  \E k \in HitKeys(cli) : res.path = HitPath(cli, k) /\ Parseable(env.nvm[k[1]].name)

\* C8 as stated: with nothing on PATH and hits in the nvm tree, the result is the
\* hit of greatest (major, minor, patch), the first discovered among equal
\* versions, and a hit in a directory whose name does not parse loses to any hit
\* in a directory whose name parses.
C8_UnparseableAlwaysLoses ==
  NvmStage(cliArg) =>
     /\ res.kind = "ok" /\ res.found
     /\ \E k \in HitKeys(cliArg) : Chosen(cliArg, k) /\ res.path = HitPath(cliArg, k)
     /\ (\E j \in HitKeys(cliArg) : Parseable(env.nvm[j[1]].name)) => ResultDirParseable(cliArg)

\* C8 amended: the result is the hit of greatest (major, minor, patch), the first
\* discovered among equal versions; a directory whose name does not parse counts
\* as (0,0,0), is not disqualified, and loses to any parseable version greater
\* than (0,0,0), while with a parseable v0.0.0 it ties and discovery order decides.
C8_GreatestVersionFirstFound ==
  NvmStage(cliArg) =>
     /\ res.kind = "ok" /\ res.found
     /\ \E k \in HitKeys(cliArg) : Chosen(cliArg, k) /\ res.path = HitPath(cliArg, k)
     /\ (\E j \in HitKeys(cliArg) : TupleLess(<<0, 0, 0>>, HitVer(j))) => ResultDirParseable(cliArg)
     /\ (\A j \in HitKeys(cliArg) : ~ Parseable(env.nvm[j[1]].name)) => ~ ResultDirParseable(cliArg)

\* v10.0.0, listed after v2.1.0, was chosen over it
C8_Witness ==
  /\ NvmStage(cliArg) /\ res.kind = "ok"
  /\ Len(env.nvm) = 2
  /\ env.nvm[1].name = <<"v", "2", ".", "1", ".", "0">>
  /\ env.nvm[2].name = <<"v", "10", ".", "0", ".", "0">>
  /\ Cardinality(HitKeys(cliArg)) > 2
  /\ res.path = HitPath(cliArg, <<2, 1>>)

\* positions of the candidate names shutil.which finds
PathKeys(cli) == { k \in DOMAIN NamesInOrder(cli) : NamesInOrder(cli)[k] \in env.pathBins }

\* (directory, candidate) positions of the hits in the common directories
CommonKeys(cli) ==
  { k \in (1..3) \X (DOMAIN NamesInOrder(cli)) : NamesInOrder(cli)[k[2]] \in env.common[k[1]] }

CommonDirOf(d) ==
  CASE d = 1 -> Home \o <<"/", ".local", "/", "bin">>
    [] d = 2 -> <<"/", "usr", "/", "local", "/", "bin">>
    [] d = 3 -> <<"/", "usr", "/", "bin">>

\* C11: a bare name is searched on PATH, then in the nvm tree, then in
\* ~/.local/bin, /usr/local/bin, /usr/bin, stopping at the first stage with a
\* hit; candidates are the primary name, then the other aliases in alias order;
\* on PATH the first candidate found wins, in the common directories the first
\* directory holding any candidate wins and candidate order decides inside it;
\* a hit at an earlier stage is returned whatever a later stage holds.
C11_StagesInOrder ==
  (res.kind # "none" /\ BareRef(cliArg)) =>
    LET names == NamesInOrder(cliArg)
        onPath == PathKeys(cliArg)
        inNvm  == HitKeys(cliArg)
        common == CommonKeys(cliArg)
    IN /\ res.kind = "ok"
       /\ onPath # {} =>
            /\ res.found /\ res.probed = {"PATH"}
            /\ \E k \in onPath :
                 /\ \A j \in onPath : k <= j
                 /\ res.path = <<"/", "opt", "/", "bin", "/">> \o names[k]
       /\ (onPath = {} /\ inNvm # {}) =>
            /\ res.found /\ res.probed = {"PATH", "nvm"}
            /\ \E k \in inNvm : res.path = HitPath(cliArg, k)
       /\ (onPath = {} /\ inNvm = {} /\ common # {}) =>
            /\ res.found /\ res.probed = {"PATH", "nvm", "common"}
            /\ \E k \in common :
                 /\ \A j \in common : ~ Earlier(j, k)
                 /\ res.path = CommonDirOf(k[1]) \o <<"/">> \o names[k[2]]
       /\ (onPath = {} /\ inNvm = {} /\ common = {}) => ~ res.found

\* foo is asked for with nothing on PATH or under nvm; ~/.local/bin holds only
\* the alias openclaw and /usr/bin holds foo itself: the alias is returned
C11_Witness ==
  /\ res.kind = "ok" /\ cliArg = <<"foo">>
  /\ PathKeys(cliArg) = {} /\ HitKeys(cliArg) = {}
  /\ env.common[1] = {<<"openclaw">>} /\ <<"foo">> \in env.common[3]
  /\ res.path = Home \o <<"/", ".local", "/", "bin", "/", "openclaw">>

\* the executable regular files of the machine
ExecutableFiles ==
  env.xfiles
  \cup { <<"/", "opt", "/", "bin", "/">> \o n : n \in env.pathBins }
  \cup { Home \o <<"/", ".nvm", "/", "versions", "/", "node", "/">> \o env.nvm[i].name \o <<"/", "bin", "/">> \o n :
           i \in { j \in DOMAIN env.nvm : env.nvmExists /\ env.nvm[j].isDir }, n \in BinNames }
  \cup { CommonDirOf(d) \o <<"/">> \o n : d \in 1..3, n \in BinNames }

\* C12: every result with found = true names an existing, executable regular
\* file, on every branch (absolute, relative, PATH, nvm, common directory), also
\* when the configured path names a directory with the search/execute bit set.
C12_FoundIsExecutableFile ==
  (res.kind = "ok" /\ res.found) => res.path \in ExecutableFiles

\* /opt/foo is a directory with the search bit set and is reported as found
C12_Witness ==
  /\ res.kind = "ok" /\ cliArg = <<"/", "opt", "/", "foo">>
  /\ <<"/", "opt", "/", "foo">> \in env.xdirs /\ <<"/", "opt", "/", "foo">> \notin env.xfiles
  /\ res.found /\ res.path = <<"/", "opt", "/", "foo">>

\* the reference holds a separator and is not absolute after ~-expansion
RelativeRef(cli) == Contains(RefOf(cli), "/") /\ Head(RefOf(cli)) # "/"

\* C13: a reference with a path separator that is not absolute after
\* ~-expansion is resolved relative to the user's home directory, whatever the
\* working directory of the process is; the executable check is applied to that
\* path and PATH, aliases and install directories are not consulted.
C13_RelativeToHome ==
  (res.kind # "none" /\ RelativeRef(cliArg)) =>
     /\ res.kind = "ok"
     /\ res.path = Home \o <<"/">> \o RefOf(cliArg)
     /\ res.found = (Home \o <<"/">> \o RefOf(cliArg) \in env.xfiles \cup env.xdirs)
     /\ res.probed = {}

\* bin/foo is resolved in the working directory /srv, where it is executable,
\* while nothing of that name is executable under the home directory
C13_Witness ==
  /\ res.kind = "ok" /\ cliArg = <<"bin", "/", "foo">>
  /\ env.cwd = <<"/", "srv">>
  /\ Home \o <<"/", "bin", "/", "foo">> \notin env.xfiles \cup env.xdirs
  /\ res.path = <<"/", "srv", "/", "bin", "/", "foo">> /\ res.found

----------------------------------------------------------------------------
(* Claims about the terminal synthesizer *)

Blank(s) == \A i \in DOMAIN s : s[i] \in {" ", "\n", "\t"}

\* s without the blanks at its two ends
Trimmed(s) ==
  IF Blank(s) THEN <<>>
  ELSE LET nb == { i \in DOMAIN s : s[i] \notin {" ", "\n", "\t"} }
           lo == CHOOSE i \in nb : \A j \in nb : i <= j
           hi == CHOOSE i \in nb : \A j \in nb : j <= i
       IN SubSeq(s, lo, hi)

AutodetectOrder ==
  << <<"x-terminal-emulator">>, <<"kitty">>, <<"alacritty">>, <<"konsole">>,
     <<"gnome-terminal">>, <<"xterm">> >>

\* the terminal the precedence rule asks for on this machine
ExpectedTerminal(cfg) ==
  IF ~ Blank(cfg) THEN Trimmed(cfg)
  ELSE IF ~ Blank(env.TERMINAL) THEN Trimmed(env.TERMINAL)
  ELSE IF \E k \in 1..6 : AutodetectOrder[k] \in env.pathBins
    THEN AutodetectOrder[CHOOSE k \in 1..6 :
           AutodetectOrder[k] \in env.pathBins /\ \A j \in 1..(k - 1) : AutodetectOrder[j] \notin env.pathBins]
  ELSE <<>>

\* C9: _resolve_terminal returns the stripped configured reference when it is not
\* blank, whatever TERMINAL and the installed programs are; else the stripped
\* TERMINAL when that is not blank; else the first installed of x-terminal-emulator,
\* kitty, alacritty, konsole, gnome-terminal, xterm; else the empty string, for
\* which _terminal_argv gives the empty argv and _open_terminal reports that no
\* terminal emulator was found.
C9_TerminalPrecedence ==
  /\ termIn.op \in {"resolve", "open"} => termOut.terminal = ExpectedTerminal(termIn.terminal)
  /\ (termIn.op = "resolve" /\ termOut.terminal = <<>>) =>
        /\ Blank(termIn.terminal) /\ Blank(env.TERMINAL)
        /\ \A k \in 1..6 : AutodetectOrder[k] \notin env.pathBins
        /\ \A c \in ShellCmds : TerminalArgv(termOut.terminal, c) = [kind |-> "ok", argv |-> <<>>]
  /\ (termIn.op = "open" /\ termOut.terminal = <<>>) =>
        termOut.kind = "notify" /\ termOut.msg = <<"No terminal emulator found">>

\* nothing configured, TERMINAL blank, kitty and xterm installed but not
\* x-terminal-emulator: kitty was selected
C9_Witness ==
  /\ termIn.op = "resolve" /\ termIn.terminal = <<" ">> /\ env.TERMINAL = <<" ">>
  /\ env.pathBins = {<<"kitty">>, <<"xterm">>, <<"gnome-terminal">>}
  /\ termOut.terminal = <<"kitty">>

\* the atoms of a token after its last "/"
BaseOf(tok) ==
  LET sl == { i \in DOMAIN tok : tok[i] = "/" }
      m  == IF sl = {} THEN 0 ELSE CHOOSE i \in sl : \A j \in sl : j <= i
  IN SubSeq(tok, m + 1, Len(tok))

\* the per-emulator table of the claim
ExpectedSuffix(base, cmd) ==
  IF base = <<"kitty">> THEN << <<"--hold">>, <<"sh">>, <<"-lc">>, cmd >>
  ELSE IF base = <<"konsole">> THEN << <<"--hold">>, <<"-e">>, <<"sh">>, <<"-lc">>, cmd >>
  ELSE IF base = <<"gnome-terminal">> THEN << <<"--">>, <<"bash">>, <<"-lc">>, cmd >>
  ELSE IF base = <<"xterm">> THEN << <<"-hold">>, <<"-e">>, <<"sh">>, <<"-lc">>, cmd >>
  ELSE << <<"-e">>, <<"sh">>, <<"-lc">>, cmd >>

\* a _terminal_argv call on a reference without the placeholder that shlex can
\* split into at least one token
PlainArgvCall ==
  /\ termIn.op = "argv"
  /\ \A i \in DOMAIN termIn.terminal : termIn.terminal[i] # "{cmd}"
  /\ ShlexSplit(termIn.terminal).ok /\ ShlexSplit(termIn.terminal).tokens # <<>>

\* C10: for a reference without {cmd}, _terminal_argv returns the reference's
\* tokens followed by the suffix the base name of the first token selects (kitty,
\* konsole, gnome-terminal, xterm, or the generic -e sh -lc), with the shell
\* command as the last element, unsplit; "kitty" with "echo hi" gives
\* kitty --hold sh -lc "echo hi".
C10_SuffixByBaseName ==
  PlainArgvCall =>
    LET toks == ShlexSplit(termIn.terminal).tokens
    IN /\ termOut.kind = "ok"
       /\ termOut.argv = toks \o ExpectedSuffix(BaseOf(toks[1]), termIn.shell)
       /\ termOut.argv[Len(termOut.argv)] = termIn.shell
       /\ (termIn.terminal = <<"kitty">> /\ termIn.shell = <<"echo", " ", "hi">>) =>
            termOut.argv = << <<"kitty">>, <<"--hold">>, <<"sh">>, <<"-lc">>, <<"echo", " ", "hi">> >>

\* konsole given by path with an argument of its own, and the shell command
\* _open_terminal builds for "echo hi"
C10_Witness ==
  /\ PlainArgvCall
  /\ termIn.terminal = <<"/", "konsole", " ", "-x">>
  /\ termIn.shell = <<"echo", " ", "hi", ";", " ", "echo", ";", " ", "exec", " ", "\"", "${SHELL:-bash}", "\"", " ", "-l">>
  /\ termOut.argv = << <<"/", "konsole">>, <<"-x">>, <<"--hold">>, <<"-e">>, <<"sh">>, <<"-lc">>, termIn.shell >>

\* a _terminal_argv call on a reference that holds the placeholder
PlaceholderCall == termIn.op = "argv" /\ \E i \in DOMAIN termIn.terminal : termIn.terminal[i] = "{cmd}"

\* the tokens of the reference, each placeholder token replaced by cmd
Substituted(toks, cmd) == [i \in DOMAIN toks |-> IF toks[i] = <<"{cmd}">> THEN cmd ELSE toks[i]]

\* C14: for a reference holding {cmd}, _terminal_argv returns the reference's
\* tokens verbatim with the placeholder replaced by the shell command as exactly
\* one argv element equal to the shell command, for every shell command and
\* every position of the placeholder; nothing emulator-specific is appended.
C14_PlaceholderOneElement ==
  PlaceholderCall =>
    /\ termOut.kind = "ok"
    /\ ShlexSplit(termIn.terminal).ok
    /\ termOut.argv = Substituted(ShlexSplit(termIn.terminal).tokens, termIn.shell)
    /\ \E i \in DOMAIN termOut.argv : termOut.argv[i] = termIn.shell

\* the placeholder is written inside quotes: the quotes the code adds close the
\* ones of the reference, and "echo hi" arrives as two argv elements
C14_Witness ==
  /\ PlaceholderCall
  /\ termIn.terminal = <<"'", "{cmd}", "'">>
  /\ termIn.shell = <<"echo", " ", "hi">>
  /\ termOut.kind = "ok" /\ termOut.argv = << <<"echo">>, <<"hi">> >>

----------------------------------------------------------------------------
(* Claims about _run *)

\* some child that ended in way `how` makes _run return what the last call returned
SameAs(how) == \E q \in RunProcs : q.how = how /\ Run(q) = runOut

\* C15: what _run returns for a timed-out invocation differs from what it returns
\* when the program cannot be spawned and from everything it returns when the
\* program ran and exited nonzero; no exit status of a completed program gives
\* the result of a timeout or of a spawn failure.
C15_TimeoutAndSpawnDistinct ==
  runIn.op = "run" =>
    /\ runIn.proc.how = "timeout" => ~ SameAs("error") /\ ~ SameAs("exit")
    /\ runIn.proc.how = "error" => ~ SameAs("timeout") /\ ~ SameAs("exit")
    /\ (runIn.proc.how = "exit" /\ runIn.proc.code # 0) => ~ SameAs("timeout") /\ ~ SameAs("error")

\* a timeout without output returns (124, "", "Timed out"), which is also what
\* a program returns that wrote "Timed out" to stderr and exited 124
C15_Witness ==
  /\ runIn.op = "run" /\ runIn.proc = TimedOut
  /\ runOut = [rc |-> 124, out |-> TextOut(<<>>), err |-> TextOut(<<"Timed out">>)]
  /\ runOut = Run(Exited(124, TextOut(<<>>), <<"Timed out">>))

====
